---- MODULE Spec2Model ----
(***************************************************************************)
(* Model of codebase_concatenator.py: main() and concatenate_files(), the  *)
(* linear pipeline walk -> filter -> sort -> read -> annotate -> write.    *)
(*                                                                         *)
(* Python str values are TLA+ strings (TLC evaluates Len, SubSeq, Head,    *)
(* Tail and \o on them).  A pathlib.Path is the tuple of its parts, as     *)
(* pathlib itself keeps it; str(path) is PathStr.  Bytes objects are       *)
(* strings too, with NUL standing for the byte b'\0'.                      *)
(***************************************************************************)
EXTENDS Integers, Sequences, FiniteSets, TLC

VARIABLES
    tree,              \* the files below the scan root (absolute Paths)
    root_kind,         \* what args.directory names: "dir", "file", "missing"
    args,              \* parsed command line: all_ext, ext, output
    disk,              \* what the file system has answered so far, per file
    pc,                \* position of the run
    extensions,        \* concatenate_files: extensions, after line 106
    todo,              \* os.walk: directories still to be yielded
    pending,           \* the inner loop "for file in files": files left
    visited,           \* directories os.walk has yielded
    files_to_process,  \* concatenate_files: files_to_process
    i,                 \* the write loop's index (files handled so far)
    output,            \* the text written to the primary output
    dest,              \* the destination: "none", "stdout", "open", "closed"
    stderr,            \* the lines printed to sys.stderr
    exit_code,         \* the process's exit status; -1 while running
    log,               \* per handled candidate: path, offset of its header, read result
    reordered,         \* whether files_to_process.sort() changed the list
    prev               \* output and reordered of the invocation before this one

vars == <<tree, root_kind, args, disk, pc, extensions, todo, pending, visited,
          files_to_process, i, output, dest, stderr, exit_code, log,
          reordered, prev>>

-----------------------------------------------------------------------------
(* Bounds of the model *)

MaxFiles == 3

-----------------------------------------------------------------------------
(* Python str and int operations *)

NUL == "@"

\* The printable ASCII characters in codepoint order, in runs: from 32,
\* from 35, from 93 and from 97 (the double quote, 34, the backslash, 92, and
\* the backquote, 96, do not occur in the strings of the model)
Ascii32 == " !"

Ascii35 == "#$%&'()*+,-./0123456789:;<=>?@ABCDEFGHIJKLMNOPQRSTUVWXYZ["

Ascii93 == "]^_"

Ascii97 == "abcdefghijklmnopqrstuvwxyz{|}~"

Upper == "ABCDEFGHIJKLMNOPQRSTUVWXYZ"

LowerLetters == "abcdefghijklmnopqrstuvwxyz"

Digits == "0123456789"

Char(s, k) == SubSeq(s, k, k)

IndexIn(s, c) == IF \E k \in 1..Len(s) : Char(s, k) = c
                 THEN CHOOSE k \in 1..Len(s) : Char(s, k) = c
                 ELSE 0

\* ord(c) for a printable ASCII character
Ord(c) == IF IndexIn(Ascii32, c) > 0 THEN IndexIn(Ascii32, c) + 31
          ELSE IF IndexIn(Ascii35, c) > 0 THEN IndexIn(Ascii35, c) + 34
          ELSE IF IndexIn(Ascii93, c) > 0 THEN IndexIn(Ascii93, c) + 92
          ELSE IndexIn(Ascii97, c) + 96

\* s < t on Python str: codepoint by codepoint, a proper prefix is smaller
StrLess(s, t) ==
    \E k \in 1..(Len(t)) :
        /\ k <= Len(s) + 1
        /\ SubSeq(s, 1, k - 1) = SubSeq(t, 1, k - 1)
        /\ \/ k = Len(s) + 1
           \/ Ord(Char(s, k)) < Ord(Char(t, k))

LowerChar(c) == IF IndexIn(Upper, c) > 0 THEN Char(LowerLetters, IndexIn(Upper, c)) ELSE c

RECURSIVE Lower(_)
Lower(s) == IF s = "" THEN "" ELSE LowerChar(Head(s)) \o Lower(Tail(s))

StartsWith(s, p) == Len(s) >= Len(p) /\ SubSeq(s, 1, Len(p)) = p

EndsWith(s, p) == Len(s) >= Len(p) /\ SubSeq(s, Len(s) - Len(p) + 1, Len(s)) = p

Contains(s, c) == \E k \in 1..Len(s) : Char(s, k) = c

\* s.rfind(c), 1-based; 0 when absent
RFind(s, c) == IF Contains(s, c)
               THEN CHOOSE k \in 1..Len(s) :
                        Char(s, k) = c /\ \A m \in (k + 1)..Len(s) : Char(s, m) # c
               ELSE 0

\* str(n) for n >= 0
RECURSIVE Str(_)
Str(n) == IF n < 10 THEN Char(Digits, n + 1)
          ELSE Str(n \div 10) \o Char(Digits, (n % 10) + 1)

\* template.format(arg) for a template with one "{}" field
Format(template, arg) ==
    LET k == CHOOSE j \in 1..(Len(template) - 1) : SubSeq(template, j, j + 1) = "{}"
    IN  SubSeq(template, 1, k - 1) \o arg \o SubSeq(template, k + 2, Len(template))

-----------------------------------------------------------------------------
(* pathlib *)

Last(p) == p[Len(p)]

\* str(path): the anchor "/" followed by the parts joined with "/"
RECURSIVE PathStr(_)
PathStr(p) ==
    IF p = <<>> THEN "."
    ELSE IF Len(p) = 1 THEN p[1]
    ELSE IF SubSeq(p, 1, Len(p) - 1) = <<"/">> THEN "/" \o Last(p)
    ELSE PathStr(SubSeq(p, 1, Len(p) - 1)) \o "/" \o Last(p)

\* path.relative_to(base), for a path below base
relative_to(path, base) == SubSeq(path, Len(base) + 1, Len(path))

IsBelow(path, base) == Len(path) > Len(base) /\ SubSeq(path, 1, Len(base)) = base

\* path.suffix: the last dot of the name and what follows, unless the dot
\* is the name's first or last character
suffix(path) ==
    LET name == Last(path)
        k    == RFind(name, ".")
    IN  IF 1 < k /\ k < Len(name) THEN SubSeq(name, k, Len(name)) ELSE ""

\* Path.__lt__ as list.sort() uses it: the parts compared as sequences of
\* str, part by part
PathLessByStr(p, q) == StrLess(PathStr(p), PathStr(q))

RECURSIVE PathLess(_, _)
PathLess(p, q) ==
    IF q = <<>> THEN FALSE
    ELSE IF p = <<>> THEN TRUE
    ELSE IF Head(p) = Head(q) THEN PathLess(Tail(p), Tail(q))
    ELSE StrLess(Head(p), Head(q))

Unsorted(s) == s

\* files_to_process.sort(): the list in ascending order of PathLess
RECURSIVE Sort(_)
Sort(s) ==
    IF s = <<>> THEN <<>>
    ELSE LET k == CHOOSE m \in 1..Len(s) : \A n \in 1..Len(s) : ~PathLess(s[n], s[m])
         IN  <<s[k]>> \o Sort(SubSeq(s, 1, k - 1) \o SubSeq(s, k + 1, Len(s)))

-----------------------------------------------------------------------------
(* Module constants *)

DEFAULT_EXTENSIONS ==
    { ".py", ".js", ".jsx", ".ts", ".tsx", ".json", ".md", ".yaml", ".yml",
      ".html", ".css", ".scss", ".sass", ".less", ".sql", ".sh", ".bat", ".ps1",
      ".dockerfile", ".gitignore", ".gitattributes", ".editorconfig" }

IGNORE_PATTERNS ==
    { "__pycache__", ".pytest_cache", "env", "venv", ".venv", ".env", "ENV",
      "env.bak", "venv.bak", ".Python", "build", "develop-eggs", "dist",
      "downloads", "eggs", ".eggs", "lib", "lib64", "parts", "sdist", "var",
      "wheels", "*.egg-info", ".installed.cfg", "*.egg", "MANIFEST",
      "node_modules", ".npm", ".yarn", "yarn-error.log", ".pnp", ".pnp.js",
      "coverage", ".nyc_output", ".grunt", "bower_components", ".bower-cache",
      ".sass-cache", ".cache", ".parcel-cache", ".next", ".nuxt",
      "out",
      ".git", ".svn", ".hg", ".DS_Store", "Thumbs.db", ".vscode", ".idea",
      ".vs", "*.swp", "*.swo", "*~", ".tmp", ".temp", "logs", "*.log",
      ".env.local", ".env.development.local", ".env.test.local",
      ".env.production.local" }

IGNORE_FILES ==
    { ".env", ".env.local", ".env.development", ".env.production", ".env.test",
      ".env.development.local", ".env.test.local", ".env.production.local",
      "package-lock.json", "yarn.lock", "poetry.lock", "Pipfile.lock" }

ALLOWED_DOTFILES == { ".gitignore", ".gitattributes", ".editorconfig" }

SNIFF_BYTES == 1024

PROGRESS_EVERY == 10

-----------------------------------------------------------------------------
(* The inputs of a run *)

\* directory, after Path(directory).resolve()
Directory == <<"/", "repo">>

\* The files a scanned tree may hold, relative to the root
Universe ==
    { <<"a.py">>, <<"a", "b.py">>, <<"c.PY">>, <<"b.js">>, <<"notes.txt">>,
      <<"index.html">>, <<"build", "x.py">>, <<"a", "dist", "y.js">>,
      <<".gitignore">>, <<"x.log">> }

\* What the sniffer's open() and f.read(1024) may give: the first bytes of
\* the file, or an error
SniffInputs == { [ok |-> TRUE, data |-> d] : d \in { "x", "x" \o NUL } }
                   \cup { [ok |-> FALSE, data |-> ""] }

\* The text a file may hold when the write loop reads it
Contents == { "", "x", "x\n" }

\* What the write loop's open() and f.read() may give: the file's text, or an
\* OSError with its message (the file may have changed since it was sniffed)
ReadInputs == { [ok |-> TRUE, content |-> c, err |-> ""] : c \in Contents }
                  \cup { [ok |-> FALSE, content |-> "", err |-> "Permission denied"] }

\* args.ext as given on the command line; <<>> stands for None (--ext absent)
ExtArgs == { <<".py">>, <<"PY">>, <<"html", ".txt">> }

\* args.output; "" stands for None (-o absent)
OutputArgs == { "", "out.txt" }

\* The command lines of the model: no option, -o, --all-ext, --ext
CommandLines ==
    { [all_ext |-> FALSE, ext |-> <<>>, output |-> o] : o \in OutputArgs }
        \cup { [all_ext |-> TRUE, ext |-> <<>>, output |-> ""] }
        \cup { [all_ext |-> FALSE, ext |-> e, output |-> ""] : e \in ExtArgs }

-----------------------------------------------------------------------------
(* The functions of the module *)

HTML_STYLE == "<!-- {} -->"

get_comment_style(file_path) ==
    LET ext == Lower(suffix(file_path))
    IN  IF ext \in { ".py", ".sh", ".yml", ".yaml", ".dockerfile" } THEN "#"
        ELSE IF ext \in { ".js", ".jsx", ".ts", ".tsx", ".css", ".scss", ".sass",
                          ".less", ".sql" } THEN "//"
        ELSE IF ext \in { ".html", ".xml" } THEN HTML_STYLE
        ELSE IF ext \in { ".md", ".txt" } THEN "#"
        ELSE "#"

should_ignore_name_only(path, base_path) ==
    \/ Last(path) \in IGNORE_FILES
    \/ \E pattern \in IGNORE_PATTERNS :
           /\ Contains(pattern, "*")
           /\ StartsWith(pattern, "*")
           /\ EndsWith(Last(path), Tail(pattern))

should_ignore(path, base_path) ==
    LET rel_path == relative_to(path, base_path)
    IN  \/ \E k \in 1..Len(rel_path) :
               /\ rel_path[k] \in IGNORE_PATTERNS \/ StartsWith(rel_path[k], ".")
               /\ rel_path[k] \notin ALLOWED_DOTFILES
        \/ Last(path) \in IGNORE_FILES
        \/ \E pattern \in IGNORE_PATTERNS :
               /\ Contains(pattern, "*")
               /\ StartsWith(pattern, "*")
               /\ EndsWith(Last(path), Tail(pattern))

\* is_text_file, given what open() and f.read(1024) answer
is_text_file(r) ==
    IF ~r.ok THEN FALSE
    ELSE LET chunk == SubSeq(r.data, 1, IF Len(r.data) < SNIFF_BYTES THEN Len(r.data)
                                         ELSE SNIFF_BYTES)
         IN  ~Contains(chunk, NUL)

\* main, lines 215-221: the extensions argument; none stands for None
NoExtensions == [none |-> TRUE, set |-> {}]

ExtensionsArg(a) ==
    IF a.all_ext THEN NoExtensions
    ELSE IF a.ext # <<>>
         THEN [none |-> FALSE,
               set  |-> { IF StartsWith(a.ext[k], ".") THEN a.ext[k] ELSE "." \o a.ext[k]
                          : k \in 1..Len(a.ext) }]
    ELSE [none |-> FALSE, set |-> DEFAULT_EXTENSIONS]

\* Python truth of the extensions value: None and the empty set are false
Truthy(e) == ~e.none /\ e.set # {}

\* extensions or DEFAULT_EXTENSIONS
ExtensionsOrDefault(e) == IF Truthy(e) THEN e ELSE [none |-> FALSE, set |-> DEFAULT_EXTENSIONS]

\* the extension check of line 133: TRUE when the file is kept
ExtensionAccepted(exts, file_path) ==
    ~(Truthy(exts) /\ Lower(suffix(file_path)) \notin exts.set)

RootOkNoDirCheck(kind) == kind # "missing"

\* directory.exists() and directory.is_dir()
RootOk(kind) == kind = "dir"

\* the header of lines 158-161
Header(comment_style, rel_path) ==
    IF comment_style = HTML_STYLE
    THEN Format(comment_style, " File: " \o PathStr(rel_path) \o " ")
    ELSE comment_style \o " File: " \o PathStr(rel_path)

TerminatorAlways(content) == "\n"

\* lines 171-172: the newline written after a content that lacks one
Terminator(content) == IF content # "" /\ ~EndsWith(content, "\n") THEN "\n" ELSE ""

WarningNoPath(file_path, e) == "Warning: Could not process file: " \o e

Warning(file_path, e) == "Warning: Could not process " \o PathStr(file_path) \o ": " \o e

ProcessingMsg(total) ==
    "Processing " \o Str(total) \o " files from '" \o PathStr(Directory) \o "'..."

ProgressMsg(k, total) == "Processed " \o Str(k) \o "/" \o Str(total) \o " files..."

SuccessMsg(total) == "Successfully processed " \o Str(total) \o " files."

RootErrorMsg(kind) ==
    IF kind = "missing"
    THEN "Error: Directory '" \o PathStr(Directory) \o "' does not exist."
    ELSE "Error: '" \o PathStr(Directory) \o "' is not a directory."

-----------------------------------------------------------------------------
(* os.walk over the tree *)

\* the names os.scandir(root) lists as files and as directories
FileNames(root) == { Last(f) : f \in { g \in tree : Len(g) = Len(root) + 1 /\ IsBelow(g, root) } }

DirNames(root) == { f[Len(root) + 1] : f \in { g \in tree : Len(g) > Len(root) + 1 /\ IsBelow(g, root) } }

\* every order in which the names of S may be listed
Orders(S) == { s \in [1..Cardinality(S) -> S] : \A a, b \in 1..Cardinality(S) : a # b => s[a] # s[b] }

RECURSIVE Keep(_, _)
Keep(root, names) ==
    IF names = <<>> THEN <<>>
    ELSE IF should_ignore(Append(root, Head(names)), Directory)
         THEN Keep(root, Tail(names))
         ELSE <<Append(root, Head(names))>> \o Keep(root, Tail(names))

-----------------------------------------------------------------------------
(* The run *)

\* disk[f] before f is opened: neither read has been answered
NotAccessed == [sniffed |-> FALSE, sniff |-> [ok |-> FALSE, data |-> ""],
                read_done |-> FALSE, read |-> [ok |-> FALSE, content |-> "", err |-> ""]]

NoPrev == [exists |-> FALSE, output |-> "", reordered |-> FALSE]

UncaughtMsg(e) == "Traceback (most recent call last): " \o e

\* The state before main runs, for a root of one of the kinds, a tree that
\* holds at most MaxFiles of the files and one of the command lines
InitOver(kinds, files, command_lines) ==
    /\ root_kind \in kinds
    /\ tree \in IF root_kind = "dir"
                THEN { { Directory \o r : r \in T } :
                         T \in { U \in SUBSET files : Cardinality(U) <= MaxFiles } }
                ELSE { {} }
    /\ args \in command_lines
    /\ disk = [f \in tree |-> NotAccessed]
    /\ pc = "Idle"
    /\ extensions = NoExtensions
    /\ todo = <<>>
    /\ pending = <<>>
    /\ visited = {}
    /\ files_to_process = <<>>
    /\ i = 0
    /\ output = ""
    /\ dest = "none"
    /\ stderr = <<>>
    /\ exit_code = -1
    /\ log = <<>>
    /\ reordered = FALSE
    /\ prev = NoPrev

Init == InitOver({ "dir", "file", "missing" }, Universe, CommandLines)

\* main, lines 213-224, and concatenate_files up to line 117: the extension
\* set, then the two checks of the root
Start ==
    /\ pc = "Idle"
    /\ extensions' = ExtensionsOrDefault(ExtensionsArg(args))
    /\ IF ~RootOk(root_kind)
       THEN /\ stderr' = Append(stderr, RootErrorMsg(root_kind))
            /\ pc' = "Failed"
            /\ exit_code' = 1
            /\ todo' = todo
       ELSE /\ pc' = "Scanning"
            /\ todo' = <<Directory>>
            /\ UNCHANGED <<stderr, exit_code>>
    /\ UNCHANGED <<tree, root_kind, args, disk, pending, visited, files_to_process,
                   i, output, dest, log, reordered, prev>>

\* one iteration of "for root, dirs, files in os.walk(directory)", up to the
\* inner loop: the directory is listed in an order the file system chooses,
\* and dirs[:] keeps the directories should_ignore lets through
WalkDir ==
    /\ pc = "Scanning"
    /\ todo # <<>>
    /\ LET root == Head(todo)
       IN  \E dirs \in Orders(DirNames(root)), files \in Orders(FileNames(root)) :
               /\ todo' = Keep(root, dirs) \o Tail(todo)
               /\ pending' = [k \in 1..Len(files) |-> Append(root, files[k])]
               /\ visited' = visited \cup { root }
               /\ pc' = IF files = <<>> THEN "Scanning" ELSE "Filtering"
    /\ UNCHANGED <<tree, root_kind, args, disk, extensions, files_to_process, i,
                   output, dest, stderr, exit_code, log, reordered, prev>>

\* one iteration of "for file in files", lines 125-140
FilterFile ==
    /\ pc = "Filtering"
    /\ LET file_path == Head(pending)
       IN  IF should_ignore(file_path, Directory)
           THEN UNCHANGED <<disk, files_to_process>>
           ELSE IF ~ExtensionAccepted(extensions, file_path)
           THEN UNCHANGED <<disk, files_to_process>>
           ELSE \E r \in SniffInputs :
                   /\ disk[file_path].sniffed => r = disk[file_path].sniff
                   /\ disk' = [disk EXCEPT ![file_path].sniffed = TRUE,
                                           ![file_path].sniff = r]
                   /\ files_to_process' = IF is_text_file(r)
                                          THEN Append(files_to_process, file_path)
                                          ELSE files_to_process
    /\ pending' = Tail(pending)
    /\ pc' = IF Tail(pending) = <<>> THEN "Scanning" ELSE "Filtering"
    /\ UNCHANGED <<tree, root_kind, args, extensions, todo, visited, i, output, dest,
                   stderr, exit_code, log, reordered, prev>>

\* lines 143-150: the sort, then the destination is opened; an OSError of
\* open() is caught nowhere, so the interpreter reports it and exits with 1
SortAndOpen ==
    /\ pc = "Scanning"
    /\ todo = <<>>
    /\ files_to_process' = Sort(files_to_process)
    /\ reordered' = (Sort(files_to_process) # files_to_process)
    /\ \E opened \in IF args.output # "" THEN BOOLEAN ELSE { TRUE } :
           IF opened
           THEN /\ dest' = IF args.output # "" THEN "open" ELSE "stdout"
                /\ stderr' = Append(stderr, ProcessingMsg(Len(files_to_process)))
                /\ pc' = "Writing"
                /\ exit_code' = exit_code
           ELSE /\ dest' = dest
                /\ stderr' = Append(stderr, UncaughtMsg("Permission denied"))
                /\ pc' = "Failed"
                /\ exit_code' = 1
    /\ i' = 0
    /\ UNCHANGED <<tree, root_kind, args, disk, extensions, todo, pending, visited,
                   output, log, prev>>

\* one iteration of the write loop, lines 152-182
WriteFile ==
    /\ pc = "Writing"
    /\ i < Len(files_to_process)
    /\ LET file_path     == files_to_process[i + 1]
           rel_path      == relative_to(file_path, Directory)
           comment_style == get_comment_style(file_path)
           header        == Header(comment_style, rel_path)
       IN  \E r \in ReadInputs :
               /\ disk[file_path].read_done => r = disk[file_path].read
               /\ disk' = [disk EXCEPT ![file_path].read_done = TRUE,
                                       ![file_path].read = r]
               /\ log' = Append(log, [path |-> file_path, at |-> Len(output) + 1, read |-> r])
               /\ IF r.ok
                  THEN /\ output' = output \o header \o "\n" \o r.content
                                        \o Terminator(r.content) \o "\n"
                       /\ stderr' = IF (i + 1) % PROGRESS_EVERY = 0
                                    THEN Append(stderr, ProgressMsg(i + 1, Len(files_to_process)))
                                    ELSE stderr
                  ELSE /\ output' = output \o header \o "\n"
                       /\ stderr' = Append(stderr, Warning(file_path, r.err))
    /\ i' = i + 1
    /\ UNCHANGED <<tree, root_kind, args, pc, extensions, todo, pending, visited,
                   files_to_process, dest, exit_code, reordered, prev>>

\* lines 184-189 and 225: the final message, the close, exit status 0
Finish ==
    /\ pc = "Writing"
    /\ i = Len(files_to_process)
    /\ stderr' = Append(stderr, SuccessMsg(Len(files_to_process)))
    /\ dest' = IF args.output # "" THEN "closed" ELSE dest
    /\ pc' = "Done"
    /\ exit_code' = 0
    /\ UNCHANGED <<tree, root_kind, args, disk, extensions, todo, pending, visited,
                   files_to_process, i, output, log, reordered, prev>>

\* the program is invoked again on the same tree with the same command line
Restart ==
    /\ pc = "Done"
    /\ ~prev.exists
    /\ prev' = [exists |-> TRUE, output |-> output, reordered |-> reordered]
    /\ pc' = "Idle"
    /\ extensions' = NoExtensions
    /\ todo' = <<>>
    /\ pending' = <<>>
    /\ visited' = {}
    /\ files_to_process' = <<>>
    /\ i' = 0
    /\ output' = ""
    /\ dest' = "none"
    /\ stderr' = <<>>
    /\ exit_code' = -1
    /\ log' = <<>>
    /\ reordered' = FALSE
    /\ UNCHANGED <<tree, root_kind, args, disk>>

Next == Start \/ WalkDir \/ FilterFile \/ SortAndOpen \/ WriteFile \/ Finish

NextRepeat == Next \/ Restart

Spec == Init /\ [][Next]_vars

\* Two invocations on one tree with one command line
RepeatUniverse == { <<"a.py">>, <<"a", "b.py">>, <<"b.js">>, <<"d", "e.py">>, <<"build", "x.py">> }

RepeatCommandLines == { c \in CommandLines : c.output = "" /\ c.ext \in { <<>>, <<".py">> } }

InitRepeat == InitOver({ "dir" }, RepeatUniverse, RepeatCommandLines)

SpecRepeat == InitRepeat /\ [][NextRepeat]_vars

-----------------------------------------------------------------------------
(* Properties *)

Range(f) == { f[k] : k \in DOMAIN f }

Rel(file_path) == relative_to(file_path, Directory)

\* the part of the output that starts at the k-th handled candidate's header
\* and ends before the next one's, or at the end of the output
Segment(k) ==
    SubSeq(output, log[k].at, IF k < Len(log) THEN log[k + 1].at - 1 ELSE Len(output))

\* line occurs somewhere in s
Mentions(s, line) == \E j \in 1..(Len(s) - Len(line) + 1) : SubSeq(s, j, j + Len(line) - 1) = line

FirstLine(s) == SubSeq(s, 1, IndexIn(s, "\n") - 1)

Scanned == pc \in { "Writing", "Done" }

HasIgnoredSegment(rel_path) == \E k \in 1..Len(rel_path) : rel_path[k] \in IGNORE_PATTERNS

\* p before q when the paths are compared segment by segment: at the first
\* segment where they differ p's is the smaller string, or p ends there
PartsBefore(p, q) ==
    \E k \in 1..Len(q) :
        /\ k <= Len(p) + 1
        /\ SubSeq(p, 1, k - 1) = SubSeq(q, 1, k - 1)
        /\ \/ k = Len(p) + 1
           \/ p[k] # q[k] /\ StrLess(p[k], q[k])

\* C1: with --all-ext every file under the root that the ignore rules let
\* through and the sniffer classifies as text becomes a candidate, whatever
\* its extension: a file that is neither ignored nor a candidate was opened
\* by the sniffer and rejected by it.
C1_AllExtAcceptsEveryTextFile ==
    (args.all_ext /\ Scanned) =>
        \A f \in tree :
            (~should_ignore(f, Directory) /\ f \notin Range(files_to_process))
                => (disk[f].sniffed /\ ~is_text_file(disk[f].sniff))

\* C2 (as stated): p's block precedes q's block exactly when the path
\* string of p is less than the path string of q, character by character,
\* the separator "/" compared as an ordinary character.
C2_BlocksInStringOrder ==
    \A a, b \in 1..Len(log) :
        a # b => ((a < b) <=> StrLess(PathStr(Rel(log[a].path)), PathStr(Rel(log[b].path))))

\* C2 (amended): p's block precedes q's block exactly when p is before q
\* segment by segment, each segment compared as a string by codepoint.
C2_BlocksInPartwiseOrder ==
    \A a, b \in 1..Len(log) :
        a # b => ((a < b) <=> PartsBefore(Rel(log[a].path), Rel(log[b].path)))

\* Two blocks written in an order that the two comparisons disagree about.
C2_Witness ==
    /\ pc = "Done"
    /\ \E a, b \in 1..Len(log) :
           /\ a < b
           /\ log[a].read.ok /\ log[b].read.ok
           /\ PartsBefore(Rel(log[a].path), Rel(log[b].path))
           /\ StrLess(PathStr(Rel(log[b].path)), PathStr(Rel(log[a].path)))

\* C3: once the writer has finished with a candidate, its header line is
\* followed by the file's content and exactly one blank separator line
\* before the next header or the end of the output, also when the candidate
\* was skipped on a read failure after its header was written.
C3_EveryHeaderHasItsSeparator ==
    \A k \in 1..Len(log) :
        LET hdr == Header(get_comment_style(log[k].path), Rel(log[k].path))
            seg == Segment(k)
            body == SubSeq(seg, Len(hdr) + 2, Len(seg) - 1)
        IN  /\ Len(seg) >= Len(hdr) + 2
            /\ StartsWith(seg, hdr \o "\n")
            /\ EndsWith(seg, "\n")
            /\ body = "" \/ EndsWith(body, "\n")
            /\ log[k].read.ok => StartsWith(body, log[k].read.content)

\* C4: a per-file error never aborts the run: the writer handles the
\* candidates one after the other in sorted order; each failing one leaves a
\* warning on the diagnostic stream that names the file and the error; each
\* other one has its block in the output; the run never fails once writing
\* has begun, and it ends with the final count message and exit status 0.
C4_BadFileNeverAborts ==
    /\ Scanned =>
           /\ Len(log) = i
           /\ i <= Len(files_to_process)
           /\ \A k \in 1..Len(log) :
                  /\ log[k].path = files_to_process[k]
                  /\ ~log[k].read.ok =>
                         \E m \in 1..Len(stderr) :
                             /\ StartsWith(stderr[m], "Warning:")
                             /\ Mentions(stderr[m], PathStr(log[k].path))
                             /\ Mentions(stderr[m], log[k].read.err)
                  /\ log[k].read.ok =>
                         /\ StartsWith(Segment(k), FirstLine(Segment(k)) \o "\n" \o log[k].read.content)
                         /\ Mentions(FirstLine(Segment(k)), PathStr(Rel(log[k].path)))
                         /\ EndsWith(Segment(k), "\n")
    /\ pc = "Failed" => log = <<>>
    /\ pc = "Done" =>
           /\ i = Len(files_to_process)
           /\ exit_code = 0
           /\ StartsWith(stderr[Len(stderr)], "Successfully processed")

\* A finished run in which a failing candidate was followed by one that got
\* its block.
C4_Witness ==
    /\ pc = "Done"
    /\ \E a, b \in 1..Len(log) : a < b /\ ~log[a].read.ok /\ log[b].read.ok

C6_IgnoredNeverCandidate ==
    /\ \A k \in 1..Len(files_to_process) : ~HasIgnoredSegment(Rel(files_to_process[k]))
    /\ \A k \in 1..Len(log) : ~HasIgnoredSegment(Rel(log[k].path))
    /\ \A f \in tree : HasIgnoredSegment(Rel(f)) => (~disk[f].sniffed /\ ~disk[f].read_done)
    /\ \A d \in visited \cup Range(todo) : ~HasIgnoredSegment(Rel(d))
    /\ \A f \in tree : HasIgnoredSegment(Rel(f)) => ~Mentions(output, PathStr(Rel(f)))

\* A finished run that wrote a block, over a tree that holds, two levels
\* down, a file under an ignored directory whose extension the filter accepts.
C6_Witness ==
    /\ pc = "Done"
    /\ \E k \in 1..Len(log) : log[k].read.ok
    /\ \E f \in tree :
           /\ Len(Rel(f)) >= 3
           /\ HasIgnoredSegment(Rel(f))
           /\ ExtensionAccepted(extensions, f)

\* C7: with --ext, a file that the ignore rules let through passes the
\* extension filter (and so reaches the sniffer) exactly when its extension
\* equals one of the requested ones, each given its leading dot, both
\* compared without regard to letter case.
C7_ExtensionMatchIgnoresCase ==
    (~args.all_ext /\ args.ext # <<>> /\ Scanned) =>
        \A f \in tree :
            ~should_ignore(f, Directory) =>
                (disk[f].sniffed <=>
                    \E k \in 1..Len(args.ext) :
                        Lower(IF StartsWith(args.ext[k], ".") THEN args.ext[k]
                              ELSE "." \o args.ext[k]) = Lower(suffix(f)))

\* C8 (as stated): every content that does not end in a newline, the empty
\* content included, is followed by exactly one appended newline; a content
\* that ends in a newline by none; then comes exactly one separator newline.
C8_NewlineAfterEveryUnterminatedContent ==
    \A k \in 1..Len(log) :
        log[k].read.ok =>
            LET c == log[k].read.content
            IN  Segment(k) = FirstLine(Segment(k)) \o "\n" \o c
                                 \o (IF ~EndsWith(c, "\n") THEN "\n" ELSE "") \o "\n"

\* C8 (amended): a content that is not empty and does not end in a newline
\* is followed by exactly one appended newline; an empty content and a
\* content that ends in a newline by none; then comes exactly one separator
\* newline.
C8_NewlineAfterNonEmptyUnterminatedContent ==
    \A k \in 1..Len(log) :
        log[k].read.ok =>
            LET c == log[k].read.content
            IN  Segment(k) = FirstLine(Segment(k)) \o "\n" \o c
                                 \o (IF c # "" /\ ~EndsWith(c, "\n") THEN "\n" ELSE "") \o "\n"

\* A finished run that wrote an empty file, a file without a final newline
\* and a file with one.
C8_Witness ==
    /\ pc = "Done"
    /\ \A c \in Contents : \E k \in 1..Len(log) : log[k].read.ok /\ log[k].read.content = c

\* C9: two runs on the same tree with the same command line, whatever the
\* order in which each traversal lists the directories, end with the same
\* output.
C9_SameOutputOnRepeat ==
    (pc = "Done" /\ prev.exists) => output = prev.output

\* The second of two finished runs, with at least two blocks, where one run
\* collected the candidates in sorted order and the other did not.
C9_Witness ==
    /\ pc = "Done"
    /\ prev.exists
    /\ reordered # prev.reordered
    /\ \E a, b \in 1..Len(log) : a # b /\ log[a].read.ok /\ log[b].read.ok

\* C10: the header line of a candidate is exactly "<!-- File: <relpath> -->"
\* for .html and .xml, and "<style> File: <relpath>" otherwise, with "//"
\* for .js .jsx .ts .tsx .css .scss .sass .less .sql and "#" for every other
\* extension, the extension compared in lowercase.
C10_HeaderFormat ==
    \A k \in 1..Len(log) :
        LET ext == Lower(suffix(log[k].path))
            rel == PathStr(Rel(log[k].path))
        IN  FirstLine(Segment(k)) =
                IF ext \in { ".html", ".xml" } THEN "<!-- File: " \o rel \o " -->"
                ELSE IF ext \in { ".js", ".jsx", ".ts", ".tsx", ".css", ".scss", ".sass",
                                  ".less", ".sql" } THEN "// File: " \o rel
                ELSE "# File: " \o rel

====
